---- MODULE Spec2Model ----
(***************************************************************************)
(* Model of scripts/indirect_heating_tank_pump.shelly.js: the controller   *)
(* of a circulation pump between a heating source and a storage tank,      *)
(* together with the Shelly environment of its test suite (switch status,  *)
(* temperature components, KVS, Timer, print).                             *)
(*                                                                         *)
(* One action is one callback of the single-threaded script: the KVS.Get   *)
(* callback of init() (which calls run()), a firing of the repeating       *)
(* timer, and the switch being operated from outside the script.           *)
(* shellyCallLog and printLog hold what the last callback called and       *)
(* printed; tick and prev are the last two evaluations of checkAndAdjust;   *)
(* boot is what run() did, while run() is the last callback that ran.      *)
(***************************************************************************)
EXTENDS Integers, Sequences, FiniteSets, TLC

VARIABLES CONFIG, frozen, switchStatus, timer, phase, kvsResult,
          shellyCallLog, printLog, tick, prev, boot

vars == <<CONFIG, frozen, switchStatus, timer, phase, kvsResult,
          shellyCallLog, printLog, tick, prev, boot>>

(***************************************************************************)
(* Bounds of the environment: the temperatures the two sensors report.     *)
(***************************************************************************)
TankMax == 66
SourceMax == 72

(***************************************************************************)
(* Configuration.                                                          *)
(***************************************************************************)
DEFAULT_CONFIG ==
  [scanInterval |-> 30,
   hotWaterTemperatureID |-> 100,
   heatingSourceTemperatureID |-> 101,
   maxWaterTemp |-> 65,
   waterPumpHysteresis |-> 7,
   waterPumpStopDifference |-> 5,
   debuggingOn |-> FALSE]

ConfigFields == DOMAIN DEFAULT_CONFIG

\* A JavaScript object without own properties: {}.
EmptyProps == [k \in {} |-> 0]

\* The value the user may have stored for each field (KVS.Set by hand).
OverrideValue ==
  [scanInterval |-> 60,
   hotWaterTemperatureID |-> 102,
   heatingSourceTemperatureID |-> 103,
   maxWaterTemp |-> 66,
   waterPumpHysteresis |-> 4,
   waterPumpStopDifference |-> 7,
   debuggingOn |-> TRUE,
   note |-> 1]

\* Every field map over the fields F: each field absent or present.
OverrideMaps(F) == {[f \in S |-> OverrideValue[f]] : S \in SUBSET F}

\* The fields of the stop rules and of the logging.
CoreFields == {"maxWaterTemp", "waterPumpStopDifference", "debuggingOn"}

\* The tank is reported from just below the default maximum, the source from
\* just above the default stop difference over that.
TankTemps == (DEFAULT_CONFIG.maxWaterTemp - 1)..TankMax
SourceTemps ==
  (DEFAULT_CONFIG.maxWaterTemp + DEFAULT_CONFIG.waterPumpStopDifference)..SourceMax

\* Every field of the configuration, and one the script does not know.
AllFields == DOMAIN OverrideValue

(***************************************************************************)
(* JavaScript values and the library functions init() uses.                *)
(***************************************************************************)
JsObject(props) == [type |-> "object", props |-> props]
JsNull == [type |-> "null", props |-> EmptyProps]
JsNumber == [type |-> "number", props |-> EmptyProps]
JsString == [type |-> "string", props |-> ("0" :> "a" @@ "1" :> "b")]
JsArray == [type |-> "array", props |-> ("0" :> 7)]

\* What the KVS holds under the key: nothing (value: null) or a text.
NoValue == [text |-> "none", props |-> EmptyProps]
Malformed == [text |-> "{bad", props |-> EmptyProps]
TextNull == [text |-> "null", props |-> EmptyProps]
TextNumber == [text |-> "5", props |-> EmptyProps]
TextString == [text |-> "\"ab\"", props |-> EmptyProps]
TextArray == [text |-> "[7]", props |-> EmptyProps]
TextObject(m) == [text |-> "{...}", props |-> m]

\* JSON.parse: throws on a malformed text, else the value the text denotes.
JSON_parse(value) ==
  CASE value.text = "{bad"   -> [threw |-> TRUE, value |-> JsNull]
    [] value.text = "null"   -> [threw |-> FALSE, value |-> JsNull]
    [] value.text = "5"      -> [threw |-> FALSE, value |-> JsNumber]
    [] value.text = "\"ab\"" -> [threw |-> FALSE, value |-> JsString]
    [] value.text = "[7]"    -> [threw |-> FALSE, value |-> JsArray]
    [] OTHER                 -> [threw |-> FALSE, value |-> JsObject(value.props)]

\* Object.assign(target, source): the source's own enumerable properties
\* overwrite the target's; a null source is skipped, a number has none.
Object_assign(target, source) ==
  [k \in DOMAIN target \cup DOMAIN source.props |->
     IF k \in DOMAIN source.props THEN source.props[k] ELSE target[k]]

\* Object.keys(value): throws TypeError on null.
Object_keys(value) ==
  [threw |-> value.type = "null", keys |-> DOMAIN value.props]

(***************************************************************************)
(* The Shelly environment.                                                 *)
(***************************************************************************)
\* error_code of an RPC: 0 is success.
ErrorCodes == {0, -1}

\* Variant: an absent component yields a status without a temperature, and
\* the missing tC counts as 0 in the comparisons.
getComponentStatus_noThrow(temperatures, id) ==
  IF id \in DOMAIN temperatures
  THEN [threw |-> FALSE, tC |-> temperatures[id]]
  ELSE [threw |-> FALSE, tC |-> 0]

\* Shelly.getComponentStatus('Temperature', id): throws when the component
\* is not there, else its status {tC}.
getComponentStatus(temperatures, id) ==
  IF id \in DOMAIN temperatures
  THEN [threw |-> FALSE, tC |-> temperatures[id]]
  ELSE [threw |-> TRUE, tC |-> 0]

\* The temperature components at one moment: each of the two sensors the
\* configuration names is absent or reports a temperature.
Temperatures(config) ==
  LET hot == config.hotWaterTemperatureID
      src == config.heatingSourceTemperatureID
  IN  UNION {{t \in [S -> TankTemps \cup SourceTemps] :
                /\ hot \in S => t[hot] \in TankTemps
                /\ src \in S => t[src] \in SourceTemps} :
             S \in SUBSET {hot, src}}

\* The reading of a sensor as the tick record keeps it.
Reading(temperatures, id) ==
  IF id \notin DOMAIN temperatures
  THEN [ok |-> FALSE, tC |-> 0]
  ELSE [ok |-> TRUE, tC |-> temperatures[id]]

\* Variant: the call returns before the switch has taken the value.
Switch_Set_pending(output, on, error_code) ==
  [output |-> output,
   calls |-> <<[method |-> "Switch.Set", on |-> on]>>]

\* Shelly.call("Switch.Set", {id: 0, on: on}, callback): the switch takes the
\* value unless the call fails; the callback runs at once.
Switch_Set(output, on, error_code) ==
  [output |-> IF error_code = 0 THEN on ELSE output,
   calls |-> <<[method |-> "Switch.Set", on |-> on]>>]

(***************************************************************************)
(* The script.                                                             *)
(***************************************************************************)
debugLog(C, message) ==
  IF "debuggingOn" \in DOMAIN C /\ C["debuggingOn"] = TRUE
  THEN <<message>>
  ELSE <<>>

waterPumpRunning(output) == output

startWaterPump(C, output, error_code) ==
  LET set == Switch_Set(output, TRUE, error_code)
  IN  [output |-> set.output,
       calls |-> set.calls,
       prints |-> IF error_code # 0
                  THEN debugLog(C, "Error starting pump: ")
                  ELSE debugLog(C, "Water pump was started successfully.")]

\* Variant: a failed Switch.Set is called again at once.
stopWaterPump_retry(C, output, error_code) ==
  LET set == Switch_Set(output, FALSE, error_code)
  IN  [output |-> set.output,
       calls |-> IF error_code # 0 THEN set.calls \o set.calls ELSE set.calls,
       prints |-> IF error_code # 0
                  THEN debugLog(C, "Error stopping pump: ")
                  ELSE debugLog(C, "Water pump was stopped successfully.")]

stopWaterPump(C, output, error_code) ==
  LET set == Switch_Set(output, FALSE, error_code)
  IN  [output |-> set.output,
       calls |-> set.calls,
       prints |-> IF error_code # 0
                  THEN debugLog(C, "Error stopping pump: ")
                  ELSE debugLog(C, "Water pump was stopped successfully.")]

\* The effects of a pump command, after the prints that precede it.
Then(prints, rule, eff) ==
  [output |-> eff.output, calls |-> eff.calls,
   prints |-> prints \o eff.prints, rule |-> rule]

\* Variants of the rules: a comparison off by one case, a forgotten
\* conjunct, the wrong threshold.
differenceRule_strict(config, hot, src, running) ==
  src < hot + config["waterPumpStopDifference"] /\ running

differenceRule_hysteresis(config, hot, src, running) ==
  src <= hot + config["waterPumpHysteresis"] /\ running

startRule_atMax(config, hot, src, running) ==
  /\ hot <= config["maxWaterTemp"]
  /\ src >= hot + config["waterPumpHysteresis"]
  /\ ~running

startRule_strict(config, hot, src, running) ==
  /\ hot < config["maxWaterTemp"]
  /\ src > hot + config["waterPumpHysteresis"]
  /\ ~running

startRule_anyState(config, hot, src, running) ==
  /\ hot < config["maxWaterTemp"]
  /\ src >= hot + config["waterPumpHysteresis"]

\* Variant: the maximum rule only above the maximum.
maxRule_strict(config, hot, src, running) ==
  hot > config["maxWaterTemp"] /\ running

\* The conditions of the three rules of checkAndAdjust.
maxRule(config, hot, src, running) ==
  hot >= config["maxWaterTemp"] /\ running

differenceRule(config, hot, src, running) ==
  src <= hot + config["waterPumpStopDifference"] /\ running

startRule(config, hot, src, running) ==
  /\ hot < config["maxWaterTemp"]
  /\ src >= hot + config["waterPumpHysteresis"]
  /\ ~running

\* Variants of the chain: the efficiency rule tested first; the rules
\* tested only when debugging is on.
branch_differenceFirst(config, hot, src, running) ==
  IF differenceRule(config, hot, src, running) THEN "difference"
  ELSE IF maxRule(config, hot, src, running) THEN "max"
  ELSE IF startRule(config, hot, src, running) THEN "start"
  ELSE "none"

branch_whenDebugging(config, hot, src, running) ==
  IF ~config["debuggingOn"] THEN "none"
  ELSE IF maxRule(config, hot, src, running) THEN "max"
  ELSE IF differenceRule(config, hot, src, running) THEN "difference"
  ELSE IF startRule(config, hot, src, running) THEN "start"
  ELSE "none"

\* The if / else-if chain: the first rule that matches.
branch(config, hot, src, running) ==
  IF maxRule(config, hot, src, running) THEN "max"
  ELSE IF differenceRule(config, hot, src, running) THEN "difference"
  ELSE IF startRule(config, hot, src, running) THEN "start"
  ELSE "none"

\* checkAndAdjust(config), with CONFIG = C, the temperature components, the
\* switch output and the error code a Switch.Set would end with.
checkAndAdjust(config, C, temperatures, output, error_code) ==
  LET hot == getComponentStatus(temperatures, config["hotWaterTemperatureID"])
      src == getComponentStatus(temperatures, config["heatingSourceTemperatureID"])
  IN
  IF hot.threw \/ src.threw
  THEN [output |-> output, calls |-> <<>>,
        prints |-> debugLog(C, "Error: "), rule |-> "catch"]
  ELSE
    LET temps == debugLog(C, "Storage Tank Temp: ")
        rule == branch(config, hot.tC, src.tC, waterPumpRunning(output))
    IN
    CASE rule = "max" ->
           Then(temps \o debugLog(C, "Storage tank at maximum temperature"),
                rule, stopWaterPump(C, output, error_code))
      [] rule = "difference" ->
           Then(temps \o debugLog(C, "Temperature difference is too low"),
                rule, stopWaterPump(C, output, error_code))
      [] rule = "start" ->
           Then(temps \o debugLog(C, "Heating source is hot enough"),
                rule, startWaterPump(C, output, error_code))
      [] OTHER ->
           [output |-> output, calls |-> <<>>, prints |-> temps, rule |-> rule]

\* The record of one evaluation: what it read, what it did.
TickOf(config, temperatures, output, error_code, eff) ==
  [seen |-> TRUE,
   config |-> config,
   hot |-> Reading(temperatures, config["hotWaterTemperatureID"]),
   source |-> Reading(temperatures, config["heatingSourceTemperatureID"]),
   running |-> output,
   calls |-> eff.calls,
   error_code |-> IF eff.calls = <<>> THEN 0 ELSE error_code,
   rule |-> eff.rule,
   prints |-> eff.prints,
   after |-> eff.output]

NoTick ==
  [seen |-> FALSE,
   config |-> EmptyProps,
   hot |-> [ok |-> FALSE, tC |-> 0],
   source |-> [ok |-> FALSE, tC |-> 0],
   running |-> FALSE,
   calls |-> <<>>,
   error_code |-> 0,
   rule |-> "none",
   prints |-> <<>>,
   after |-> FALSE]

Pending == [error_code |-> 0, value |-> [text |-> "pending", props |-> EmptyProps]]

\* The results KVS.Get can deliver: an RPC error, no stored value, a text.
KvsResults(texts) ==
  {[error_code |-> -1, value |-> NoValue]}
    \cup {[error_code |-> 0, value |-> v] : v \in {NoValue} \cup texts}

CoreTexts == {TextObject(m) : m \in OverrideMaps(CoreFields)}

AllTexts ==
  {Malformed, TextNull, TextNumber, TextString, TextArray}
    \cup {TextObject(m) : m \in OverrideMaps(AllFields)}

\* The merge of init()'s callback.
loadedConfigOf(result) ==
  IF result.error_code = 0 /\ result.value.text # "none"
  THEN LET parsed == JSON_parse(result.value)
       IN  IF parsed.threw THEN JsObject(EmptyProps) ELSE parsed.value
  ELSE JsObject(EmptyProps)

\* Variant: the defaults merged over the loaded configuration.
mergedConfig_defaultsLast(result) ==
  Object_assign(Object_assign(EmptyProps, loadedConfigOf(result)),
                JsObject(DEFAULT_CONFIG))

mergedConfig(result) ==
  Object_assign(Object_assign(EmptyProps, JsObject(DEFAULT_CONFIG)),
                loadedConfigOf(result))

\* The last callback was not run().
NoBoot ==
  [seen |-> FALSE, before |-> FALSE, error_code |-> 0, after |-> FALSE,
   steps |-> <<>>]

\* Variant: the immediate check made before the pump is stopped.
run_checkFirst(config, temperatures, output, e1, e2) ==
  LET eff == checkAndAdjust(config, config, temperatures, output, e2)
      stop == stopWaterPump(config, eff.output, e1)
  IN  [output |-> stop.output,
       calls |-> eff.calls \o stop.calls,
       prints |-> eff.prints \o stop.prints,
       tick |-> TickOf(config, temperatures, output, e2, eff),
       timer |-> <<[timeout |-> config["scanInterval"] * 1000, repeat |-> TRUE]>>,
       boot |-> [seen |-> TRUE, before |-> eff.output, error_code |-> e1,
                 after |-> stop.output,
                 steps |-> <<"checkAndAdjust", "stopWaterPump", "Timer.set">>]]

\* run() with CONFIG = config: stopWaterPump(), checkAndAdjust(CONFIG), then
\* Timer.set. e1 and e2 are the error codes the two Switch.Set calls end with.
run(config, temperatures, output, e1, e2) ==
  LET stop == stopWaterPump(config, output, e1)
      eff == checkAndAdjust(config, config, temperatures, stop.output, e2)
  IN  [output |-> eff.output,
       calls |-> stop.calls \o eff.calls,
       prints |-> stop.prints \o eff.prints,
       tick |-> TickOf(config, temperatures, stop.output, e2, eff),
       timer |-> <<[timeout |-> config["scanInterval"] * 1000, repeat |-> TRUE]>>,
       boot |-> [seen |-> TRUE, before |-> output, error_code |-> e1,
                 after |-> stop.output,
                 steps |-> <<"stopWaterPump", "checkAndAdjust", "Timer.set">>]]

\* init() has been called when the script was loaded: KVS.Get is in flight.
Init ==
  /\ CONFIG = EmptyProps
  /\ frozen = FALSE
  /\ switchStatus \in BOOLEAN
  /\ timer = <<>>
  /\ phase = "kvs"
  /\ kvsResult = Pending
  /\ shellyCallLog = <<[method |-> "KVS.Get", on |-> FALSE]>>
  /\ printLog = <<>>
  /\ tick = NoTick
  /\ prev = NoTick
  /\ boot = NoBoot

\* The callback of KVS.Get in init(), run() included.
KvsGetCallback(results) ==
  /\ phase = "kvs"
  /\ \E result \in results :
       LET loadedConfig == loadedConfigOf(result)
           config == mergedConfig(result)
           keys == Object_keys(loadedConfig)
       IN
       /\ kvsResult' = result
       /\ CONFIG' = config
       /\ frozen' = TRUE
       /\ IF keys.threw
          THEN /\ phase' = "fatal"
               /\ UNCHANGED <<switchStatus, timer, tick, prev, boot>>
               /\ shellyCallLog' = <<>>
               /\ printLog' = <<>>
          ELSE \E temperatures \in Temperatures(config), e1, e2 \in ErrorCodes :
                 LET loaded == IF Cardinality(keys.keys) > 0
                               THEN debugLog(config, "Custom configuration loaded from KVS.")
                               ELSE debugLog(config, "No custom configuration found in KVS.")
                     ran == run(config, temperatures, switchStatus, e1, e2)
                 IN
                 /\ phase' = "run"
                 /\ switchStatus' = ran.output
                 /\ shellyCallLog' = ran.calls
                 /\ printLog' = loaded \o ran.prints
                 /\ prev' = tick
                 /\ tick' = ran.tick
                 /\ timer' = ran.timer
                 /\ boot' = ran.boot

\* Variant: the check decides from the state the last command asked for
\* instead of reading the switch.
TimerFire_cached ==
  /\ phase = "run"
  /\ timer # <<>>
  /\ \E temperatures \in Temperatures(CONFIG), error_code \in ErrorCodes :
       LET believed == IF tick.calls = <<>> THEN switchStatus ELSE tick.calls[1].on
           eff == checkAndAdjust(CONFIG, CONFIG, temperatures, believed, error_code)
           output == IF eff.calls = <<>> THEN switchStatus
                     ELSE Switch_Set(switchStatus, eff.calls[1].on, error_code).output
       IN
       /\ switchStatus' = output
       /\ shellyCallLog' = eff.calls
       /\ printLog' = eff.prints
       /\ prev' = tick
       /\ tick' = [TickOf(CONFIG, temperatures, switchStatus, error_code, eff)
                     EXCEPT !.after = output]
       /\ boot' = NoBoot
       /\ UNCHANGED <<CONFIG, frozen, timer, phase, kvsResult>>

\* Variant: the timer checks with the defaults instead of CONFIG.
TimerFire_defaults ==
  /\ phase = "run"
  /\ timer # <<>>
  /\ \E temperatures \in Temperatures(DEFAULT_CONFIG), error_code \in ErrorCodes :
       LET eff == checkAndAdjust(DEFAULT_CONFIG, CONFIG, temperatures,
                                 switchStatus, error_code)
       IN
       /\ switchStatus' = eff.output
       /\ shellyCallLog' = eff.calls
       /\ printLog' = eff.prints
       /\ prev' = tick
       /\ tick' = TickOf(DEFAULT_CONFIG, temperatures, switchStatus, error_code, eff)
       /\ boot' = NoBoot
       /\ UNCHANGED <<CONFIG, frozen, timer, phase, kvsResult>>

\* A firing of the repeating timer: checkAndAdjust(CONFIG).
TimerFire ==
  /\ phase = "run"
  /\ timer # <<>>
  /\ \E temperatures \in Temperatures(CONFIG), error_code \in ErrorCodes :
       LET eff == checkAndAdjust(CONFIG, CONFIG, temperatures, switchStatus, error_code)
       IN
       /\ switchStatus' = eff.output
       /\ shellyCallLog' = eff.calls
       /\ printLog' = eff.prints
       /\ prev' = tick
       /\ tick' = TickOf(CONFIG, temperatures, switchStatus, error_code, eff)
       /\ boot' = NoBoot
       /\ UNCHANGED <<CONFIG, frozen, timer, phase, kvsResult>>

\* The switch is operated from outside the script (button, app, test).
ExternalSwitch ==
  /\ switchStatus' = ~switchStatus
  /\ UNCHANGED <<CONFIG, frozen, timer, phase, kvsResult,
                 shellyCallLog, printLog, tick, prev, boot>>

Next ==
  \/ KvsGetCallback(KvsResults(CoreTexts))
  \/ TimerFire
  \/ ExternalSwitch

Spec == Init /\ [][Next]_vars

\* The script under its scheduling, over the maximum temperatures:
\* Shelly.call delivers the answer of KVS.Get, and the repeating timer goes
\* on firing.
LiveTexts == {TextObject(m) : m \in OverrideMaps({"maxWaterTemp"})}

NextLive ==
  \/ KvsGetCallback(KvsResults(LiveTexts))
  \/ TimerFire
  \/ ExternalSwitch

SpecLive ==
  /\ Init /\ [][NextLive]_vars
  /\ WF_vars(KvsGetCallback(KvsResults(LiveTexts)))
  /\ WF_vars(TimerFire)

\* Startup alone, over everything the KVS can hold under the key.
NextStartup == KvsGetCallback(KvsResults(AllTexts))

SpecStartup == Init /\ [][NextStartup]_vars

\* Startup and the timer, over the scan intervals and the logging.
TimerTexts == {TextObject(m) : m \in OverrideMaps({"scanInterval", "debuggingOn"})}

NextTimer ==
  \/ KvsGetCallback(KvsResults(TimerTexts))
  \/ TimerFire

SpecTimer == Init /\ [][NextTimer]_vars

(***************************************************************************)
(* Vocabulary of the properties.                                           *)
(***************************************************************************)
IssuedStart(t) == \E i \in 1..Len(t.calls) : t.calls[i].on = TRUE
IssuedStop(t) == \E i \in 1..Len(t.calls) : t.calls[i].on = FALSE
NoCommand(t) == t.calls = <<>>
BothValid(t) == t.seen /\ t.hot.ok /\ t.source.ok
Printed(t, message) == \E i \in 1..Len(t.prints) : t.prints[i] = message

Max == CONFIG["maxWaterTemp"]
Hysteresis == CONFIG["waterPumpHysteresis"]
StopDifference == CONFIG["waterPumpStopDifference"]

\* C1: a tick in which the tank reading or the source reading failed issues
\* no Switch.Set command and leaves the pump in the state it had before the
\* tick, whatever that state, the other reading and the configuration are.
C1_FaultHolds ==
  (tick.seen /\ (~tick.hot.ok \/ ~tick.source.ok))
    => /\ NoCommand(tick)
       /\ tick.after = tick.running
       /\ tick.rule = "catch"

\* The source reading failed while the tank reading was valid and the pump
\* was running: the tick issued nothing and the pump still runs.
C1_Witness ==
  /\ tick.seen /\ tick.hot.ok /\ ~tick.source.ok
  /\ tick.running /\ tick.after
  /\ NoCommand(tick)

\* C2: no tick issues Start when the tank temperature it read is at or
\* above maxWaterTemp, however hot the source is.
C2_NoStartAtMax ==
  (tick.seen /\ tick.hot.ok /\ tick.hot.tC >= Max) => ~IssuedStart(tick)

\* The tank is exactly at maxWaterTemp, the pump is stopped and the source
\* is hot enough for the hysteresis: the tick issued nothing.
C2_Witness ==
  /\ BothValid(tick) /\ ~tick.running
  /\ tick.hot.tC = Max
  /\ tick.source.tC >= tick.hot.tC + Hysteresis
  /\ NoCommand(tick)

\* C3: with both readings valid, the pump running and the tank at or above
\* maxWaterTemp, the tick issues Stop whatever the source temperature is, by
\* the maximum-temperature rule: the rationale printed is never the one of
\* the efficiency rule, and is the maximum-temperature one when debugging
\* is on.
C3_MaxRuleWins ==
  (BothValid(tick) /\ tick.running /\ tick.hot.tC >= Max)
    => /\ IssuedStop(tick)
       /\ ~IssuedStart(tick)
       /\ tick.rule = "max"
       /\ ~Printed(tick, "Temperature difference is too low")
       /\ CONFIG["debuggingOn"] => Printed(tick, "Storage tank at maximum temperature")

\* Both stop conditions hold and debugging is on: Stop was issued with the
\* maximum-temperature rationale.
C3_Witness ==
  /\ BothValid(tick) /\ tick.running
  /\ tick.hot.tC >= Max
  /\ tick.source.tC <= tick.hot.tC + StopDifference
  /\ CONFIG["debuggingOn"]
  /\ IssuedStop(tick)
  /\ Printed(tick, "Storage tank at maximum temperature")

\* C4: with both readings valid and the pump running, a source at or below
\* tank + waterPumpStopDifference makes the tick issue Stop, for a tank
\* below as well as at or above maxWaterTemp.
C4_EfficiencyStop ==
  (BothValid(tick) /\ tick.running /\ tick.source.tC <= tick.hot.tC + StopDifference)
    => IssuedStop(tick)

\* The source is exactly at tank + waterPumpStopDifference with the tank
\* below the maximum: Stop was issued.
C4_Witness ==
  /\ BothValid(tick) /\ tick.running
  /\ tick.hot.tC < Max
  /\ tick.source.tC = tick.hot.tC + StopDifference
  /\ IssuedStop(tick)

\* C5: with both readings valid, the pump stopped, the tank below
\* maxWaterTemp and the source at or above tank + waterPumpHysteresis, the
\* tick issues Start.
C5_Start ==
  (/\ BothValid(tick) /\ ~tick.running
   /\ tick.hot.tC < Max
   /\ tick.source.tC >= tick.hot.tC + Hysteresis)
    => IssuedStart(tick)

\* The source is exactly at tank + waterPumpHysteresis: Start was issued.
C5_Witness ==
  /\ BothValid(tick) /\ ~tick.running
  /\ tick.hot.tC < Max
  /\ tick.source.tC = tick.hot.tC + Hysteresis
  /\ IssuedStart(tick)

\* The cases of a tick t in which no rule matches.
HoldRunning(t) ==
  /\ BothValid(t) /\ t.running
  /\ t.hot.tC < Max
  /\ t.source.tC > t.hot.tC + StopDifference

HoldStopped(t) ==
  /\ BothValid(t) /\ ~t.running
  /\ (t.hot.tC >= Max \/ t.source.tC < t.hot.tC + Hysteresis)

\* C6: a tick with both readings valid in which no stop or start rule
\* matches issues no Switch.Set command and leaves the pump state unchanged.
C6_Hold ==
  (HoldRunning(tick) \/ HoldStopped(tick))
    => /\ NoCommand(tick)
       /\ tick.after = tick.running

\* A tick held a running pump after the tick before it had held a stopped
\* one (the gap below the hysteresis).
C6_Witness ==
  /\ HoldRunning(tick) /\ NoCommand(tick) /\ tick.after
  /\ HoldStopped(prev) /\ prev.hot.tC < Max /\ NoCommand(prev) /\ ~prev.after

\* Two consecutive ticks that read the same valid temperatures, under a
\* configuration with waterPumpStopDifference < waterPumpHysteresis.
SameReadings ==
  /\ BothValid(prev) /\ BothValid(tick)
  /\ prev.hot.tC = tick.hot.tC
  /\ prev.source.tC = tick.source.tC
  /\ StopDifference < Hysteresis

\* C7 as stated: after a tick that issued Start and succeeded, or a tick
\* that issued Stop, a tick with the same readings issues no command.
C7_AsStated ==
  (/\ SameReadings
   /\ \/ IssuedStart(prev) /\ prev.error_code = 0
      \/ IssuedStop(prev))
    => NoCommand(tick)

\* C7: with waterPumpStopDifference < waterPumpHysteresis and the same valid
\* readings in two consecutive ticks, Start is never followed by Stop nor
\* Stop by Start; and the second tick issues no command when the command of
\* the first succeeded and the switch was not operated from outside between
\* the two ticks.
C7_NoOscillation ==
  SameReadings
    => /\ IssuedStart(prev) => ~IssuedStop(tick)
       /\ IssuedStop(prev) => ~IssuedStart(tick)
       /\ (/\ ~NoCommand(prev) /\ prev.error_code = 0
           /\ tick.running = prev.after)
            => NoCommand(tick)

\* A tick started the pump with the source exactly at the hysteresis, and
\* the next tick, with the same readings, issued nothing.
C7_Witness ==
  /\ SameReadings
  /\ IssuedStart(prev) /\ prev.error_code = 0
  /\ prev.source.tC = prev.hot.tC + Hysteresis
  /\ tick.running
  /\ NoCommand(tick)

\* The decision of an evaluation.
Decision(calls) ==
  IF calls = <<>> THEN "Hold"
  ELSE IF calls[1].on THEN "Start" ELSE "Stop"

\* The configurations that agree with CONFIG on the sensors and on the
\* three thresholds.
SameThresholds ==
  {[CONFIG EXCEPT !["debuggingOn"] = d, !["scanInterval"] = i] :
     d \in BOOLEAN, i \in {DEFAULT_CONFIG.scanInterval, OverrideValue.scanInterval}}

\* The temperature components the last tick saw.
TickTemperatures ==
  LET hot == CONFIG["hotWaterTemperatureID"]
      src == CONFIG["heatingSourceTemperatureID"]
  IN  [id \in (IF tick.hot.ok THEN {hot} ELSE {})
                \cup (IF tick.source.ok THEN {src} ELSE {}) |->
         IF id = hot THEN tick.hot.tC ELSE tick.source.tC]

\* C8: the decision of a tick depends only on the two readings, the pump
\* state it observes and the three thresholds: an evaluation of the same
\* readings and pump state under any debuggingOn and scanInterval, with no
\* tick before it and whatever the outcome of its command, decides what the
\* tick decided.
C8_DecisionDependsOnInputsOnly ==
  tick.seen =>
    \A config \in SameThresholds, error_code \in ErrorCodes :
      Decision(checkAndAdjust(config, config, TickTemperatures,
                              tick.running, error_code).calls)
        = Decision(tick.calls)

\* A tick that followed another tick started the pump with debugging off.
C8_Witness ==
  /\ prev.seen /\ BothValid(tick)
  /\ ~CONFIG["debuggingOn"]
  /\ Decision(tick.calls) = "Start"
  /\ Decision(prev.calls) = "Stop"

\* The field map the KVS held, when KVS.Get delivered one.
LoadedFieldMap ==
  /\ phase # "kvs"
  /\ kvsResult.error_code = 0
  /\ kvsResult.value.text = "{...}"

\* C9: after init's callback, every field present in the override map has
\* the override value in CONFIG, every field absent from it has its
\* DEFAULT_CONFIG value, and with an empty map CONFIG equals DEFAULT_CONFIG.
C9_Merge ==
  LoadedFieldMap =>
    LET overrides == kvsResult.value.props
    IN  /\ \A f \in DOMAIN overrides : CONFIG[f] = overrides[f]
        /\ \A f \in ConfigFields \ DOMAIN overrides : CONFIG[f] = DEFAULT_CONFIG[f]
        /\ overrides = EmptyProps => CONFIG = DEFAULT_CONFIG

\* The KVS held maxWaterTemp and scanInterval only: CONFIG has the two
\* stored values and the defaults elsewhere.
C9_Witness ==
  /\ LoadedFieldMap
  /\ DOMAIN kvsResult.value.props = {"maxWaterTemp", "scanInterval"}
  /\ CONFIG["maxWaterTemp"] = OverrideValue.maxWaterTemp
  /\ CONFIG["scanInterval"] = OverrideValue.scanInterval
  /\ CONFIG["waterPumpHysteresis"] = DEFAULT_CONFIG.waterPumpHysteresis

\* C10: whatever KVS.Get delivers, init's callback ends without a fatal
\* error: run() has been invoked (stop issued first, one evaluation run, the
\* repeating timer set), and unless a field map was stored the fields of
\* CONFIG have their default values.
C10_StartupRecovers ==
  phase # "kvs" =>
    /\ phase = "run"
    /\ Len(shellyCallLog) >= 1
    /\ shellyCallLog[1] = [method |-> "Switch.Set", on |-> FALSE]
    /\ tick.seen
    /\ timer = <<[timeout |-> CONFIG["scanInterval"] * 1000, repeat |-> TRUE]>>
    /\ ~LoadedFieldMap => \A f \in ConfigFields : CONFIG[f] = DEFAULT_CONFIG[f]

\* The command of a tick failed.
CommandFailed(t) == t.seen /\ ~NoCommand(t) /\ t.error_code # 0
CommandSucceeded(t) == t.seen /\ ~NoCommand(t) /\ t.error_code = 0

\* Two consecutive ticks read the same valid temperatures.
Repeated ==
  /\ BothValid(prev) /\ BothValid(tick)
  /\ prev.hot.tC = tick.hot.tC
  /\ prev.source.tC = tick.source.tC

\* C11: a Switch.Set that fails leaves the pump as it was and is not fatal,
\* and the next tick issues the same command again when it reads the same
\* valid temperatures and finds the pump state unchanged.
C11_RetryNextTick ==
  CommandFailed(prev)
    => /\ prev.after = prev.running
       /\ phase = "run"
       /\ (Repeated /\ tick.running = prev.running) => tick.calls = prev.calls

\* A Stop failed, and the next tick issued Stop again and stopped the pump.
C11_Witness ==
  /\ CommandFailed(prev) /\ IssuedStop(prev)
  /\ Repeated /\ tick.running
  /\ IssuedStop(tick) /\ tick.error_code = 0 /\ ~tick.after

\* C12: checkAndAdjust issues Start only when the pump state it observes is
\* stopped, and Stop only when the pump state it observes is running.
C12_NoRedundantCommand ==
  tick.seen
    => /\ IssuedStart(tick) => ~tick.running
       /\ IssuedStop(tick) => tick.running

\* A tick started a stopped pump after the tick before it had stopped a
\* running one.
C12_Witness ==
  /\ IssuedStart(tick) /\ ~tick.running
  /\ IssuedStop(prev) /\ prev.running

\* C13: one invocation of checkAndAdjust issues at most one Switch.Set,
\* whether the command fails or succeeds: a timer callback calls nothing but
\* the command of its tick, and run() the stop and the command of its tick.
C13_AtMostOneCommand ==
  tick.seen
    => /\ Len(tick.calls) <= 1
       /\ ~boot.seen => shellyCallLog = tick.calls
       /\ boot.seen => Len(shellyCallLog) = 1 + Len(tick.calls)

\* A timer tick issued a Stop that failed, and nothing more.
C13_Witness ==
  /\ ~boot.seen
  /\ CommandFailed(tick) /\ IssuedStop(tick)
  /\ Len(shellyCallLog) = 1

StopCall == [method |-> "Switch.Set", on |-> FALSE]

\* C14: while KVS.Get is pending nothing has been evaluated, commanded or
\* scheduled; run() works on the merged, frozen CONFIG, stops the pump first,
\* then evaluates once, then sets one repeating timer of scanInterval * 1000
\* ms; each firing of the timer is one evaluation with CONFIG.
C14_StartupOrder ==
  /\ phase = "kvs"
       => /\ ~frozen /\ ~tick.seen /\ ~boot.seen /\ timer = <<>>
          /\ shellyCallLog = <<[method |-> "KVS.Get", on |-> FALSE]>>
  /\ phase = "run"
       => /\ frozen
          /\ CONFIG = mergedConfig(kvsResult)
          /\ tick.seen /\ tick.config = CONFIG
          /\ timer = <<[timeout |-> CONFIG["scanInterval"] * 1000, repeat |-> TRUE]>>
  /\ boot.seen
       => /\ ~prev.seen
          /\ boot.steps = <<"stopWaterPump", "checkAndAdjust", "Timer.set">>
          /\ shellyCallLog = <<StopCall>> \o tick.calls
          /\ tick.running = boot.after
  /\ (phase = "run" /\ ~boot.seen)
       => /\ prev.seen /\ prev.config = CONFIG
          /\ shellyCallLog = tick.calls

\* run() has just run under a stored scanInterval: it stopped a running
\* pump, its evaluation started the pump again, and the timer is set.
C14_Witness ==
  /\ boot.seen /\ boot.before /\ ~boot.after
  /\ IssuedStart(tick)
  /\ shellyCallLog = <<StopCall, [method |-> "Switch.Set", on |-> TRUE]>>
  /\ timer = <<[timeout |-> OverrideValue.scanInterval * 1000, repeat |-> TRUE]>>

\* C15: stopWaterPump issues Switch.Set on:false only when the pump is
\* running, the call made by run() included, and startWaterPump issues
\* Switch.Set on:true only when the pump is not running.
C15_OnlyWhenNeeded ==
  /\ boot.seen => (shellyCallLog[1] = StopCall => boot.before)
  /\ tick.seen => (IssuedStop(tick) => tick.running)
  /\ tick.seen => (IssuedStart(tick) => ~tick.running)

\* The state of the switch once the command of tick t has ended.
Completed(t) ==
  IF NoCommand(t) \/ t.error_code # 0 THEN t.running ELSE t.calls[1].on

InBand(t) ==
  /\ BothValid(t)
  /\ t.hot.tC < Max
  /\ t.hot.tC + Hysteresis <= t.source.tC
  /\ t.source.tC <= t.hot.tC + StopDifference

\* C17: a configuration with waterPumpStopDifference >= waterPumpHysteresis
\* is taken as stored, and under it a tick whose readings lie in the band
\* commands the opposite of the pump state it observes, so that consecutive
\* ticks with the same readings in the band alternate Start and Stop.
C17_Oscillates ==
  (phase # "kvs" /\ StopDifference >= Hysteresis)
    => /\ (LoadedFieldMap /\ "waterPumpStopDifference" \in DOMAIN kvsResult.value.props)
            => StopDifference = kvsResult.value.props["waterPumpStopDifference"]
       /\ InBand(tick)
            => /\ tick.running => IssuedStop(tick)
               /\ ~tick.running => IssuedStart(tick)
       /\ (/\ InBand(prev) /\ Repeated
           /\ CommandSucceeded(prev) /\ tick.running = prev.after)
            => /\ IssuedStart(prev) => IssuedStop(tick)
               /\ IssuedStop(prev) => IssuedStart(tick)

\* Under a stored stop difference equal to the hysteresis, a tick started
\* the pump and the next tick, with the same readings, stopped it.
C17_Witness ==
  /\ phase = "run"
  /\ StopDifference >= Hysteresis
  /\ InBand(prev) /\ Repeated
  /\ IssuedStart(prev) /\ CommandSucceeded(prev)
  /\ IssuedStop(tick) /\ CommandSucceeded(tick)

\* The switch was operated from outside between the last two ticks.
OutsideChange == prev.seen /\ tick.seen /\ tick.running # prev.after

\* C18: a tick decides from the switch state at that tick: after a change
\* made outside the controller it applies the rules to the state it finds,
\* not to the state the tick before left.
C18_ReadsSwitchEachTick ==
  (OutsideChange /\ BothValid(tick))
    => LET rule == branch(CONFIG, tick.hot.tC, tick.source.tC, tick.running)
       IN  /\ tick.rule = rule
           /\ rule \in {"max", "difference"} => IssuedStop(tick)
           /\ rule = "start" => IssuedStart(tick)
           /\ rule = "none" => NoCommand(tick)

\* The tick before left the pump stopped, the switch was turned on from
\* outside with the tank at or above the maximum, and the tick issued Stop.
C18_Witness ==
  /\ OutsideChange /\ BothValid(tick)
  /\ ~prev.after /\ tick.running
  /\ tick.hot.tC >= Max
  /\ IssuedStop(tick)

\* C19: once init's callback has assigned and frozen CONFIG no callback
\* changes it, and every evaluation, the immediate one and each timer
\* firing, uses that configuration.
C19_ConfigImmutable ==
  /\ [][frozen => (frozen' /\ CONFIG' = CONFIG)]_vars
  /\ [](tick.seen => (frozen /\ tick.config = CONFIG))
  /\ [](prev.seen => prev.config = tick.config)

\* Two evaluations have run under a configuration loaded from the KVS.
C19_Witness ==
  /\ frozen /\ prev.seen /\ tick.seen
  /\ CONFIG # DEFAULT_CONFIG
  /\ prev.config = CONFIG /\ tick.config = CONFIG

\* C20: with waterPumpStopDifference < waterPumpHysteresis, a tick with both
\* readings valid whose command, if any, succeeded never leaves the pump
\* running with the tank at or above maxWaterTemp or the source at or below
\* tank + waterPumpStopDifference.
C20_PostTick ==
  (/\ BothValid(tick) /\ tick.error_code = 0
   /\ StopDifference < Hysteresis
   /\ tick.after)
    => /\ tick.hot.tC < Max
       /\ tick.source.tC > tick.hot.tC + StopDifference

\* A tick started the pump, one degree below the maximum and exactly at the
\* hysteresis.
C20_Witness ==
  /\ BothValid(tick) /\ CommandSucceeded(tick) /\ IssuedStart(tick)
  /\ StopDifference < Hysteresis
  /\ tick.hot.tC = Max - 1
  /\ tick.source.tC = tick.hot.tC + Hysteresis
  /\ tick.after

\* The last evaluation read both sensors, with the tank at or above the
\* maximum.
HotTick == phase = "run" /\ BothValid(tick) /\ tick.hot.tC >= Max

\* C21: when from some point on every evaluation reads valid temperatures
\* with the tank at or above maxWaterTemp, the timer goes on firing and the
\* commands do not fail for ever, the pump is stopped again and again; it is
\* switched on during that time only from outside the script, and once the
\* switch is no longer operated from outside it is stopped for good.
C21_EventuallyStopped ==
  /\ [][(HotTick' /\ ~switchStatus /\ switchStatus') => ExternalSwitch]_vars
  /\ (<>[]HotTick /\ []<>(~CommandFailed(tick)))
       => []<>(~switchStatus)
  /\ (<>[]HotTick /\ []<>(~CommandFailed(tick)) /\ <>[][~ExternalSwitch]_vars)
       => <>[](~switchStatus)

\* With the tank at or above the maximum a Stop failed, and the Stop of the
\* next tick, the tank still at or above the maximum, stopped the pump.
C21_Witness ==
  /\ HotTick
  /\ CommandFailed(prev) /\ IssuedStop(prev)
  /\ prev.hot.ok /\ prev.hot.tC >= Max
  /\ CommandSucceeded(tick) /\ IssuedStop(tick)
  /\ ~switchStatus

====
